---------------------------- MODULE Spec2Model ----------------------------
(***************************************************************************)
(* Model of packages/coretypes/agentid.go: the AgentID value type, its     *)
(* constructors, its variant accessors, its text form and its stream       *)
(* reader.                                                                 *)
(*                                                                         *)
(* A byte is a natural number, a byte slice or array is a sequence of      *)
(* bytes, and a Go string is a sequence of one-character strings.          *)
(* A call's outcome is a record [val, err, panic, calls]: err = "nil" and  *)
(* panic = "none" on a normal return, and calls lists the text decoders    *)
(* the call invoked.                                                       *)
(***************************************************************************)
EXTENDS Integers, Sequences, FiniteSets, TLC

(***************************************************************************)
(* Sizes.  The lengths of the chain field and the range of the enumerated  *)
(* byte values are scaled down; the handle field keeps its four bytes.     *)
(***************************************************************************)
ChainIDLength == 2
HnameLength == 4
MaxByte == 2
MaxStrLen == 3
MaxStreamByte == 1

ContractIDLength == ChainIDLength + HnameLength
AgentIDLength == ContractIDLength
AddressLength == ChainIDLength

Bytes == 0..MaxByte

\* The address types the ledger library knows (ED25519 and BLS).
AddressTypes == {0, 1}

RECURSIVE SeqsOfLen(_, _)
SeqsOfLen(S, n) ==
    IF n = 0 THEN {<<>>}
    ELSE {Append(t, x) : t \in SeqsOfLen(S, n - 1), x \in S}

SeqsUpTo(S, n) == UNION {SeqsOfLen(S, k) : k \in 0..n}

Zeros(n) == [i \in 1..n |-> 0]

\* Go's copy(dst, src): overwrites the first min(len) elements of dst.
Copy(dst, src) ==
    [i \in 1..Len(dst) |-> IF i <= Len(src) THEN src[i] ELSE dst[i]]

Ok(v) == [val |-> v, err |-> "nil", panic |-> "none", calls |-> <<>>]
Fail(v, e) == [val |-> v, err |-> e, panic |-> "none", calls |-> <<>>]
Panic(v, p) == [val |-> v, err |-> "nil", panic |-> p, calls |-> <<>>]
IsOk(r) == r.err = "nil" /\ r.panic = "none"

ZeroAgentID == Zeros(AgentIDLength)
ZeroContractID == Zeros(ContractIDLength)
HnameZero == Zeros(HnameLength)

(***************************************************************************)
(* Base-58 and hexadecimal text.                                           *)
(***************************************************************************)
B58Alphabet ==
    << "1","2","3","4","5","6","7","8","9",
       "A","B","C","D","E","F","G","H","J","K","L","M","N","P","Q","R","S",
       "T","U","V","W","X","Y","Z",
       "a","b","c","d","e","f","g","h","i","j","k","m","n","o","p","q","r",
       "s","t","u","v","w","x","y","z" >>

B58Index(c) == CHOOSE i \in 1..58 : B58Alphabet[i] = c
IsB58(c) == \E i \in 1..58 : B58Alphabet[i] = c

RECURSIVE LeadingCount(_, _)
LeadingCount(s, x) ==
    IF s = <<>> \/ Head(s) # x THEN 0 ELSE 1 + LeadingCount(Tail(s), x)

Drop(s, n) == SubSeq(s, n + 1, Len(s))

RECURSIVE NumOf(_, _)
\* value of the big-endian digit sequence d in the given base
NumOf(d, base) ==
    IF d = <<>> THEN 0
    ELSE NumOf(SubSeq(d, 1, Len(d) - 1), base) * base + d[Len(d)]

RECURSIVE DigitsOf(_, _)
\* the minimal big-endian digit sequence of n in the given base
DigitsOf(n, base) ==
    IF n = 0 THEN <<>>
    ELSE Append(DigitsOf(n \div base, base), n % base)

Base58Encode(b) ==
    LET z == LeadingCount(b, 0)
        d == DigitsOf(NumOf(Drop(b, z), 256), 58)
    IN  [i \in 1..z |-> "1"] \o [i \in 1..Len(d) |-> B58Alphabet[d[i] + 1]]

Base58Decode(s) ==
    IF s = <<>> THEN Fail(<<>>, "zero length string")
    ELSE IF \E i \in 1..Len(s) : ~IsB58(s[i])
    THEN Fail(<<>>, "invalid base58 digit")
    ELSE LET z == LeadingCount(s, "1")
             r == Drop(s, z)
             d == [i \in 1..Len(r) |-> B58Index(r[i]) - 1]
         IN  Ok(Zeros(z) \o DigitsOf(NumOf(d, 58), 256))

HexLower == << "0","1","2","3","4","5","6","7","8","9","a","b","c","d","e","f" >>
HexUpper == << "0","1","2","3","4","5","6","7","8","9","A","B","C","D","E","F" >>
IsHex(c) == \E i \in 1..16 : HexLower[i] = c \/ HexUpper[i] = c
HexVal(c) == (CHOOSE i \in 1..16 : HexLower[i] = c \/ HexUpper[i] = c) - 1

\* fmt.Sprintf("%02x", b)
Hex2(b) == << HexLower[(b \div 16) + 1], HexLower[(b % 16) + 1] >>


(***************************************************************************)
(* The collaborating types: ledgerstate.Address, Hname, ChainID and        *)
(* ContractID, whose code is outside agentid.go.  An address is its        *)
(* Array(): the type byte followed by the digest; decoding bytes into an   *)
(* address fails on an unknown type byte.  Address and chain texts are     *)
(* base-58; a handle's text is its eight hexadecimal digits.               *)
(***************************************************************************)
Addresses == {b \in SeqsOfLen(Bytes, AddressLength) : b[1] \in AddressTypes}

\* ledgerstate.AddressFromBytes: reads one address from the front of b
AddressFromBytes(b) ==
    IF Len(b) < AddressLength THEN Fail(<<>>, "not enough bytes")
    ELSE IF b[1] \notin AddressTypes THEN Fail(<<>>, "unsupported address type")
    ELSE Ok(SubSeq(b, 1, AddressLength))

\* Address.String
AddressString(addr) == Base58Encode(addr)

\* ledgerstate.AddressFromBase58EncodedString
AddressFromBase58EncodedString(s) ==
    LET d == Base58Decode(s)
    IN  IF ~IsOk(d) THEN Fail(<<>>, d.err) ELSE AddressFromBytes(d.val)

\* Hname.String: the handle as eight hexadecimal digits (little-endian bytes)
HnameString(hn) ==
    Hex2(hn[4]) \o Hex2(hn[3]) \o Hex2(hn[2]) \o Hex2(hn[1])

\* HnameFromString: strconv.ParseUint(s, 16, 32)
HnameFromString(s) ==
    IF s = <<>> \/ \E i \in 1..Len(s) : ~IsHex(s[i])
    THEN Fail(HnameZero, "invalid syntax")
    ELSE LET r == Drop(s, LeadingCount(s, "0"))
         IN  IF Len(r) > 2 * HnameLength THEN Fail(HnameZero, "value out of range")
             ELSE LET p == [i \in 1..(2 * HnameLength - Len(r)) |-> "0"] \o r
                      byte(k) == 16 * HexVal(p[2 * k - 1]) + HexVal(p[2 * k])
                  IN  Ok(<< byte(4), byte(3), byte(2), byte(1) >>)

\* ChainID.String
ChainIDString(chid) == Base58Encode(chid)

\* ChainIDFromBase58
ChainIDFromBase58(s) ==
    LET d == Base58Decode(s)
    IN  IF ~IsOk(d) THEN Fail(Zeros(ChainIDLength), d.err)
        ELSE IF Len(d.val) # ChainIDLength
        THEN Fail(Zeros(ChainIDLength), "ErrWrongDataLength")
        ELSE Ok(d.val)

\* NewContractID(chid, contractHn)
NewContractID(chid, hn) == chid \o hn

ContractIDChainID(cid) == SubSeq(cid, 1, ChainIDLength)
ContractIDHname(cid) == SubSeq(cid, ChainIDLength + 1, ChainIDLength + HnameLength)

\* ContractID.String
ContractIDString(cid) ==
    ChainIDString(ContractIDChainID(cid)) \o <<":", ":">> \o HnameString(ContractIDHname(cid))

\* the positions at which "::" occurs in s
SepAt(s) == {i \in 1..(Len(s) - 1) : s[i] = ":" /\ s[i + 1] = ":"}

\* NewContractIDFromString: strings.Split(s, "::") must give two parts
NewContractIDFromString(s) ==
    IF SepAt(s) = {} THEN Fail(ZeroContractID, "ErrWrongDataConversion")
    ELSE LET i == CHOOSE k \in SepAt(s) : \A j \in SepAt(s) : k <= j
             left == SubSeq(s, 1, i - 1)
             right == Drop(s, i + 1)
         IN  IF SepAt(right) # {} THEN Fail(ZeroContractID, "ErrWrongDataConversion")
             ELSE LET chid == ChainIDFromBase58(left)
                      hn == HnameFromString(right)
                  IN  IF ~IsOk(chid) THEN Fail(ZeroContractID, chid.err)
                      ELSE IF ~IsOk(hn) THEN Fail(ZeroContractID, hn.err)
                      ELSE Ok(NewContractID(chid.val, hn.val))

(***************************************************************************)
(* agentid.go                                                              *)
(***************************************************************************)
\* variant: only the chain field is copied
NewAgentIDFromContractID_ChainOnly(id) == Copy(ZeroAgentID, SubSeq(id, 1, ChainIDLength))

\* NewAgentIDFromContractID
NewAgentIDFromContractID(id) == Copy(ZeroAgentID, id)

\* variant: a handle other than the reserved 0
NewAgentIDFromAddress_Hname1(addr) ==
    NewAgentIDFromContractID(NewContractID(addr, <<1, 0, 0, 0>>))

\* NewAgentIDFromAddress: the address as chain field, 0 as the handle
NewAgentIDFromAddress(addr) ==
    NewAgentIDFromContractID(NewContractID(addr, HnameZero))

\* variant: only a buffer that is too short is rejected
NewAgentIDFromBytes_TooShortOnly(data) ==
    IF Len(data) < AgentIDLength THEN Fail(ZeroAgentID, "ErrWrongDataLength")
    ELSE Ok(Copy(ZeroAgentID, data))

\* NewAgentIDFromBytes
NewAgentIDFromBytes(data) ==
    IF Len(data) # AgentIDLength THEN Fail(ZeroAgentID, "ErrWrongDataLength")
    ELSE Ok(Copy(ZeroAgentID, data))

chainIDField(a) == SubSeq(a, 1, ChainIDLength)

hnameField(a) == SubSeq(a, ChainIDLength + 1, ChainIDLength + HnameLength)

\* variant: the chain field is compared instead of the handle field
IsAddress_WrongField(a) == chainIDField(a) = Zeros(4)

\* IsAddress: the handle field equals four zero bytes
IsAddress(a) == hnameField(a) = Zeros(4)

\* MustAddress
MustAddress(a) ==
    IF ~IsAddress(a) THEN Panic(<<>>, "not an address")
    ELSE LET r == AddressFromBytes(chainIDField(a))
         IN  IF ~IsOk(r) THEN Panic(<<>>, r.err) ELSE Ok(r.val)

\* variant: no check of the variant
MustContractID_NoCheck(a) == Ok(Copy(ZeroContractID, a))

\* MustContractID
MustContractID(a) ==
    IF IsAddress(a) THEN Panic(ZeroContractID, "not a contract")
    ELSE Ok(Copy(ZeroContractID, a))

\* variant: the contract form carries the address prefix
String_OnePrefix(a) ==
    IF IsAddress(a)
    THEN LET r == MustAddress(a)
         IN  IF ~IsOk(r) THEN Panic(<<>>, r.panic)
             ELSE Ok(<<"A", "/">> \o AddressString(r.val))
    ELSE LET cid == MustContractID(a)
         IN  IF ~IsOk(cid) THEN Panic(<<>>, cid.panic)
             ELSE Ok(<<"A", "/">> \o ContractIDString(cid.val))

\* String
String(a) ==
    IF IsAddress(a)
    THEN LET r == MustAddress(a)
         IN  IF ~IsOk(r) THEN Panic(<<>>, r.panic)
             ELSE Ok(<<"A", "/">> \o AddressString(r.val))
    ELSE LET cid == MustContractID(a)
         IN  IF ~IsOk(cid) THEN Panic(<<>>, cid.panic)
             ELSE Ok(<<"C", "/">> \o ContractIDString(cid.val))

\* variant: the length check is len(s) <= 2
NewAgentIDFromString_LenLe2(s) ==
    IF Len(s) <= 2 THEN Fail(ZeroAgentID, "invalid length")
    ELSE IF SubSeq(s, 1, 2) = <<"A", "/">>
    THEN LET r == AddressFromBase58EncodedString(Drop(s, 2))
         IN  [val |-> IF IsOk(r) THEN NewAgentIDFromAddress(r.val) ELSE ZeroAgentID,
              err |-> r.err, panic |-> "none",
              calls |-> <<"AddressFromBase58EncodedString">>]
    ELSE IF SubSeq(s, 1, 2) = <<"C", "/">>
    THEN LET r == NewContractIDFromString(Drop(s, 2))
         IN  [val |-> IF IsOk(r) THEN NewAgentIDFromContractID(r.val) ELSE ZeroAgentID,
              err |-> r.err, panic |-> "none",
              calls |-> <<"NewContractIDFromString">>]
    ELSE Fail(ZeroAgentID, "invalid prefix")

\* NewAgentIDFromString
NewAgentIDFromString(s) ==
    IF Len(s) < 2 THEN Fail(ZeroAgentID, "invalid length")
    ELSE IF SubSeq(s, 1, 2) = <<"A", "/">>
    THEN LET r == AddressFromBase58EncodedString(Drop(s, 2))
         IN  [val |-> IF IsOk(r) THEN NewAgentIDFromAddress(r.val) ELSE ZeroAgentID,
              err |-> r.err, panic |-> "none",
              calls |-> <<"AddressFromBase58EncodedString">>]
    ELSE IF SubSeq(s, 1, 2) = <<"C", "/">>
    THEN LET r == NewContractIDFromString(Drop(s, 2))
         IN  [val |-> IF IsOk(r) THEN NewAgentIDFromContractID(r.val) ELSE ZeroAgentID,
              err |-> r.err, panic |-> "none",
              calls |-> <<"NewContractIDFromString">>]
    ELSE Fail(ZeroAgentID, "invalid prefix")


\* ReadAgentID: one r.Read(agentID[:]) call that delivers the first n bytes
\* of the stream into the destination and returns the reader's error e
ReadAgentID(dest, strm, n, e) ==
    [agentID |-> Copy(dest, SubSeq(strm, 1, n)),
     rest |-> Drop(strm, n),
     err |-> IF e # "nil" THEN e
             ELSE IF n # AgentIDLength THEN "error while reading agent ID"
             ELSE "nil"]

(***************************************************************************)
(* Inputs.                                                                 *)
(***************************************************************************)
ContractIDs == SeqsOfLen(Bytes, ContractIDLength)
Buffers == UNION {SeqsOfLen(Bytes, k) : k \in (AgentIDLength - 1)..(AgentIDLength + 1)}

InputChars == {"A", "C", "/", "X", "1", ":"}
ShortStrings == SeqsUpTo(InputChars, MaxStrLen)
AddressTexts == {<<"A", "/">> \o AddressString(x) : x \in Addresses}
LocatorTexts == {<<"C", "/">> \o ContractIDString(c) : c \in ContractIDs}
StrInputs == ShortStrings \cup AddressTexts \cup LocatorTexts

Streams == SeqsUpTo(0..MaxStreamByte, AgentIDLength + 1)
Destinations == {ZeroAgentID} \cup {NewAgentIDFromAddress(x) : x \in Addresses}
ReaderErrors == {"nil", "EOF", "unexpected"}

(***************************************************************************)
(* State: the identifier a held by the caller, how it was made (origin),   *)
(* the last call (op), its argument (arg), its outcome (ret), the value of *)
(* a before that call (before), the last text rendered from an identifier  *)
(* (text, and textOf, the identifier it was rendered from), and the bytes  *)
(* left in the input stream.                                               *)
(***************************************************************************)
VARIABLES a, origin, op, arg, ret, before, text, textOf, stream

vars == <<a, origin, op, arg, ret, before, text, textOf, stream>>

Init ==
    /\ a = ZeroAgentID
    /\ origin = [by |-> "zero", arg |-> <<>>, ok |-> TRUE]
    /\ op = "init"
    /\ arg = <<>>
    /\ ret = Ok(<<>>)
    /\ before = ZeroAgentID
    /\ text = <<>>
    /\ textOf = ZeroAgentID
    /\ stream = <<>>

\* a, err = NewAgentIDFromBytes(data)
CallNewAgentIDFromBytes(data) ==
    /\ op = "init"
    /\ op' = "NewAgentIDFromBytes"
    /\ arg' = data
    /\ ret' = NewAgentIDFromBytes(data)
    /\ a' = ret'.val
    /\ origin' = [by |-> "bytes", arg |-> data, ok |-> IsOk(ret')]
    /\ before' = a
    /\ UNCHANGED <<text, textOf, stream>>

\* a = NewAgentIDFromAddress(addr)
CallNewAgentIDFromAddress(addr) ==
    /\ op = "init"
    /\ op' = "NewAgentIDFromAddress"
    /\ arg' = addr
    /\ ret' = Ok(NewAgentIDFromAddress(addr))
    /\ a' = ret'.val
    /\ origin' = [by |-> "address", arg |-> addr, ok |-> TRUE]
    /\ before' = a
    /\ UNCHANGED <<text, textOf, stream>>

\* a = NewAgentIDFromContractID(cid)
CallNewAgentIDFromContractID(cid) ==
    /\ op = "init"
    /\ op' = "NewAgentIDFromContractID"
    /\ arg' = cid
    /\ ret' = Ok(NewAgentIDFromContractID(cid))
    /\ a' = ret'.val
    /\ origin' = [by |-> "contract", arg |-> cid, ok |-> TRUE]
    /\ before' = a
    /\ UNCHANGED <<text, textOf, stream>>

\* a, err = NewAgentIDFromString(s), on an input string or on the text
\* last rendered by String
CallNewAgentIDFromString(s) ==
    /\ \/ op = "init" /\ s \in StrInputs
       \/ op = "String" /\ text # <<>> /\ s = text
    /\ op' = "NewAgentIDFromString"
    /\ arg' = s
    /\ ret' = NewAgentIDFromString(s)
    /\ a' = ret'.val
    /\ origin' = [by |-> "string", arg |-> s, ok |-> IsOk(ret')]
    /\ before' = a
    /\ UNCHANGED <<text, textOf, stream>>

CallIsAddress ==
    /\ op' = "IsAddress"
    /\ arg' = a
    /\ ret' = Ok(IsAddress(a))
    /\ before' = a
    /\ UNCHANGED <<a, origin, text, textOf, stream>>

CallMustAddress ==
    /\ op' = "MustAddress"
    /\ arg' = a
    /\ ret' = MustAddress(a)
    /\ before' = a
    /\ UNCHANGED <<a, origin, text, textOf, stream>>

CallMustContractID ==
    /\ op' = "MustContractID"
    /\ arg' = a
    /\ ret' = MustContractID(a)
    /\ before' = a
    /\ UNCHANGED <<a, origin, text, textOf, stream>>

CallString ==
    /\ op' = "String"
    /\ arg' = a
    /\ ret' = String(a)
    /\ text' = IF IsOk(ret') THEN ret'.val ELSE <<>>
    /\ textOf' = a
    /\ before' = a
    /\ UNCHANGED <<a, origin, stream>>

Next ==
    \/ op = "init" /\ \E data \in Buffers : CallNewAgentIDFromBytes(data)
    \/ op = "init" /\ \E addr \in Addresses : CallNewAgentIDFromAddress(addr)
    \/ op = "init" /\ \E cid \in ContractIDs : CallNewAgentIDFromContractID(cid)
    \/ op = "init" /\ \E s \in StrInputs : CallNewAgentIDFromString(s)
    \/ op = "String" /\ CallNewAgentIDFromString(text)
    \/ CallIsAddress
    \/ CallMustAddress
    \/ CallMustContractID
    \/ CallString

Spec == Init /\ [][Next]_vars

(***************************************************************************)
(* The stream reader: a destination and a stream are given, and            *)
(* ReadAgentID makes its one Read call, of which the reader decides how    *)
(* many bytes it delivers and which error it returns.                      *)
(***************************************************************************)
InitRead ==
    /\ a \in Destinations
    /\ origin = [by |-> "zero", arg |-> <<>>, ok |-> TRUE]
    /\ op = "init"
    /\ arg = <<>>
    /\ ret = Ok(<<>>)
    /\ before = a
    /\ text = <<>>
    /\ textOf = ZeroAgentID
    /\ stream \in Streams

Min(x, y) == IF x <= y THEN x ELSE y

\* err = ReadAgentID(r, &a).  The reader delivers n <= len(a) of the bytes
\* it holds; it may report end-of-stream only with its last bytes.
CallReadAgentID(n, e) ==
    /\ op = "init"
    /\ n \in 0..Min(AgentIDLength, Len(stream))
    /\ e = "EOF" => n = Len(stream)
    /\ LET r == ReadAgentID(a, stream, n, e)
       IN  /\ a' = r.agentID
           /\ stream' = r.rest
           /\ ret' = IF r.err = "nil" THEN Ok(r.agentID) ELSE Fail(r.agentID, r.err)
           /\ origin' = [by |-> "read", arg |-> stream, ok |-> r.err = "nil"]
    /\ op' = "ReadAgentID"
    /\ arg' = [stream |-> stream, n |-> n, e |-> e]
    /\ before' = a
    /\ UNCHANGED <<text, textOf>>

NextRead ==
    \E n \in 0..AgentIDLength, e \in ReaderErrors : CallReadAgentID(n, e)

SpecRead == InitRead /\ [][NextRead]_vars


(***************************************************************************)
(* Properties.                                                             *)
(***************************************************************************)
Prefix(s) == SubSeq(s, 1, 2)
PrefixA == <<"A", "/">>
PrefixC == <<"C", "/">>

\* the part of a locator text after its first "::"
HandleText(s) ==
    IF SepAt(s) = {} THEN <<>>
    ELSE Drop(s, (CHOOSE k \in SepAt(s) : \A j \in SepAt(s) : k <= j) + 1)

\* C1: every identifier renders to a text (String returns normally), and
\* parsing the text rendered from an identifier succeeds and gives back
\* that identifier.
C1_TextRoundTrip ==
    /\ op = "String" => IsOk(ret)
    /\ (op = "NewAgentIDFromString" /\ text # <<>> /\ arg = text) =>
           IsOk(ret) /\ ret.val = textOf

\* C2: IsAddress always answers with a boolean; MustAddress panics with
\* "not an address" when IsAddress is false; MustContractID panics with
\* "not a contract" when IsAddress is true; the two accessors never both
\* succeed on one identifier.
C2_VariantExclusivity ==
    /\ op = "IsAddress" => IsOk(ret) /\ ret.val \in BOOLEAN
    /\ (op = "MustAddress" /\ ~IsAddress(a)) => ret.panic = "not an address"
    /\ (op = "MustContractID" /\ IsAddress(a)) => ret.panic = "not a contract"
    /\ ~(IsOk(MustAddress(a)) /\ IsOk(MustContractID(a)))

C2_Witness ==
    /\ op = "MustContractID"
    /\ origin.by = "address"
    /\ IsAddress(a)
    /\ ret.panic = "not a contract"

\* C3: an identifier made from an address by NewAgentIDFromAddress is made
\* without failure, IsAddress answers true on it, and MustAddress returns
\* the address it was made from.
C3_AddressEmbedding ==
    origin.by = "address" =>
        /\ op = "NewAgentIDFromAddress" => IsOk(ret)
        /\ op = "IsAddress" => ret.val = TRUE
        /\ op = "MustAddress" => IsOk(ret) /\ ret.val = origin.arg

C3_Witness ==
    /\ origin.by = "address"
    /\ op = "MustAddress"
    /\ IsOk(ret)
    /\ ret.val = origin.arg
    /\ origin.arg # Zeros(AddressLength)

\* C4: an identifier made by NewAgentIDFromContractID from a contract ID
\* whose handle is not zero is made without failure, IsAddress answers
\* false on it, and MustContractID returns the contract ID it was made from.
C4_LocatorEmbedding ==
    (origin.by = "contract" /\ ContractIDHname(origin.arg) # HnameZero) =>
        /\ op = "NewAgentIDFromContractID" => IsOk(ret)
        /\ op = "IsAddress" => ret.val = FALSE
        /\ op = "MustContractID" => IsOk(ret) /\ ret.val = origin.arg

C4_Witness ==
    /\ origin.by = "contract"
    /\ ContractIDHname(origin.arg) # HnameZero
    /\ op = "MustContractID"
    /\ IsOk(ret)
    /\ ret.val = origin.arg

\* C5: NewAgentIDFromBytes fails with ErrWrongDataLength exactly when the
\* buffer's length is not AgentIDLength, returning the zero identifier;
\* otherwise it succeeds and the identifier's bytes are the buffer's.
C5_FromBytes ==
    op = "NewAgentIDFromBytes" =>
        IF Len(arg) # AgentIDLength
        THEN ret.err = "ErrWrongDataLength" /\ ret.val = ZeroAgentID /\ a = ZeroAgentID
        ELSE IsOk(ret) /\ ret.val = arg /\ a = arg

C5_Witness ==
    /\ op = "NewAgentIDFromBytes"
    /\ Len(arg) = AgentIDLength + 1
    /\ arg[1] # 0
    /\ ret.err = "ErrWrongDataLength"

\* C6: NewAgentIDFromString rejects a string shorter than two characters
\* with "invalid length" and a longer string whose first two characters are
\* neither "A/" nor "C/" with "invalid prefix"; in both cases it returns
\* the zero identifier and calls neither text decoder.
C6_PrefixRejection ==
    op = "NewAgentIDFromString" =>
        /\ Len(arg) < 2 =>
               ret.err = "invalid length" /\ ret.val = ZeroAgentID /\ ret.calls = <<>>
        /\ (Len(arg) >= 2 /\ Prefix(arg) \notin {PrefixA, PrefixC}) =>
               ret.err = "invalid prefix" /\ ret.val = ZeroAgentID /\ ret.calls = <<>>

C6_Witness ==
    /\ op = "NewAgentIDFromString"
    /\ arg = <<"X", "/">>
    /\ ret.err = "invalid prefix"

\* C7: an identifier made by NewAgentIDFromContractID from a contract ID
\* whose handle is zero answers true to IsAddress, makes MustContractID
\* panic with "not a contract", and equals the identifier that
\* NewAgentIDFromAddress makes from the address whose bytes are the
\* contract ID's chain field.
C7_SentinelReservation ==
    (origin.by = "contract" /\ ContractIDHname(origin.arg) = HnameZero) =>
        /\ op = "IsAddress" => ret.val = TRUE
        /\ op = "MustContractID" => ret.panic = "not a contract"
        /\ \A x \in Addresses :
               x = ContractIDChainID(origin.arg) => a = NewAgentIDFromAddress(x)

C7_Witness ==
    /\ origin.by = "contract"
    /\ ContractIDHname(origin.arg) = HnameZero
    /\ ContractIDChainID(origin.arg) \in Addresses
    /\ ContractIDChainID(origin.arg) # Zeros(ChainIDLength)
    /\ op = "IsAddress"
    /\ ret.val = TRUE

\* C8: when ReadAgentID fails (the reader returned an error or delivered
\* fewer than AgentIDLength bytes) it reports an error and the destination
\* identifier is what it was before the call.
C8_ReadAtomic ==
    (op = "ReadAgentID" /\ (arg.e # "nil" \/ arg.n < AgentIDLength)) =>
        ~IsOk(ret) /\ a = before

\* C9: when the stream holds at least AgentIDLength bytes and the reader
\* has no failure of its own, ReadAgentID succeeds, takes exactly
\* AgentIDLength bytes from the stream and leaves them in the destination,
\* however the reader delivers them.
C9_ReadComplete ==
    (op = "ReadAgentID" /\ Len(arg.stream) >= AgentIDLength /\ arg.e # "unexpected") =>
        /\ IsOk(ret)
        /\ Len(stream) = Len(arg.stream) - AgentIDLength
        /\ a = SubSeq(arg.stream, 1, AgentIDLength)

\* C10 as stated: an identifier parsed from a string that begins with "C/"
\* is the contract variant and renders with "C/"; one parsed from a string
\* that begins with "A/" is the address variant and renders with "A/".
C10_PrefixVariant ==
    (origin.by = "string" /\ origin.ok) =>
        /\ Prefix(origin.arg) = PrefixC =>
               /\ ~IsAddress(a)
               /\ op = "String" => IsOk(ret) /\ Prefix(ret.val) = PrefixC
        /\ Prefix(origin.arg) = PrefixA =>
               /\ IsAddress(a)
               /\ op = "String" => IsOk(ret) /\ Prefix(ret.val) = PrefixA

\* C10 amended: an identifier parsed from a string that begins with "C/"
\* and whose handle digits are not all zero is the contract variant and
\* renders with "C/"; one parsed from a string that begins with "A/" is the
\* address variant and renders with "A/".
C10_PrefixVariantNonZeroHandle ==
    (origin.by = "string" /\ origin.ok) =>
        /\ (/\ Prefix(origin.arg) = PrefixC
            /\ \E k \in 1..Len(HandleText(origin.arg)) : HandleText(origin.arg)[k] # "0") =>
               /\ ~IsAddress(a)
               /\ op = "String" => IsOk(ret) /\ Prefix(ret.val) = PrefixC
        /\ Prefix(origin.arg) = PrefixA =>
               /\ IsAddress(a)
               /\ op = "String" => IsOk(ret) /\ Prefix(ret.val) = PrefixA

C10_Witness ==
    /\ origin.by = "string"
    /\ origin.ok
    /\ Prefix(origin.arg) = PrefixC
    /\ \E k \in 1..Len(HandleText(origin.arg)) : HandleText(origin.arg)[k] # "0"
    /\ op = "String"
    /\ IsOk(ret)
    /\ Prefix(ret.val) = PrefixC

=============================================================================
